---- MODULE Spec2Model ----
(***************************************************************************)
(* The caching layer of qwickapps/schema: MemoryCacheProvider, an          *)
(* in-memory key-value cache with LRU eviction and lazy TTL expiration,    *)
(* and CachedDataProvider, which puts such a cache in front of a           *)
(* data-fetching collaborator.                                             *)
(*                                                                         *)
(* A JavaScript value that may be undefined is modelled as a sequence of   *)
(* length at most one: << >> is undefined and <<x>> is the value x.        *)
(***************************************************************************)
EXTENDS Integers, Sequences, FiniteSets, TLC

VARIABLES
    cache,     \* Map<string, CacheEntry>: the entries in Map iteration order
    config,    \* the resolved Required<MemoryCacheConfig>
    now,       \* the clock Date.now() reads
    last,      \* the most recent call on the provider and what it returned
    lastSet,   \* per key, the value of the most recent set(key, value) call
    wrapper,   \* CachedDataProvider: its cache mode and resolved config
    pending,   \* the get/select calls that await the collaborator
    resp,      \* the most recent completed CachedDataProvider call and its result
    origin     \* per cache key, the call whose miss stored the entry last

wvars == <<wrapper, pending, resp, origin>>

vars == <<cache, config, now, last, lastSet, wvars>>

-----------------------------------------------------------------------------
(* Bounds of the model *)

MaxTicks == 1        \* the clock advances at most MaxTicks times
ClockStep == 2       \* by ClockStep ms each time
MaxCapacity == 2     \* the configured maxSize ranges over 1..MaxCapacity

(* Inputs *)

Keys == {"", "a", "b"}          \* string keys, the empty string among them
Values == {"x", "y"}            \* cached payloads
TtlArgs == {<< >>, <<0>>, <<1>>}  \* set's ttl argument: omitted, 0 ms, 1 ms
TestDefaultTtl == <<2>>         \* the defaultTtl the cache is constructed with

-----------------------------------------------------------------------------
(* JavaScript values *)

undefined == << >>
null == "null"

\* if (x) for a number | undefined: undefined and 0 are falsy
TruthyNumber(x) == x # undefined /\ x[1] # 0

\* if (x) for a string | undefined: undefined and "" are falsy
TruthyString(x) == x # undefined /\ x[1] # ""

\* a || b for numbers
OrElse(a, b) == IF TruthyNumber(a) THEN a ELSE b

\* n >= m and n > m where m may be undefined (a comparison with undefined is false)
GreaterEq(n, m) == m # undefined /\ n >= m[1]
Greater(n, m) == m # undefined /\ n > m[1]

-----------------------------------------------------------------------------
(* Map<string, CacheEntry<T>> as a sequence of entries in insertion order *)

MapHas(m, key) == \E i \in 1..Len(m) : m[i].key = key

MapGet(m, key) == m[CHOOSE i \in 1..Len(m) : m[i].key = key]

MapDelete(m, key) == SelectSeq(m, LAMBDA e : e.key # key)

MapSet(m, key, entry) ==
    IF MapHas(m, key)
    THEN [i \in 1..Len(m) |-> IF m[i].key = key THEN entry ELSE m[i]]
    ELSE Append(m, entry)

MapKeys(m) == [i \in 1..Len(m) |-> m[i].key]

KeySet(m) == {m[i].key : i \in 1..Len(m)}

-----------------------------------------------------------------------------
(* MemoryCacheProvider *)

DefaultMaxSize == 100
DefaultTtlMs == 300000

\* constructor: { maxSize: 100, defaultTtl: 5 * 60 * 1000, ...config }.
\* given is a record whose fields are the keys the caller's object has.
Constructor(given) ==
    [maxSize |-> IF "maxSize" \in DOMAIN given THEN given.maxSize ELSE <<DefaultMaxSize>>,
     defaultTtl |-> IF "defaultTtl" \in DOMAIN given THEN given.defaultTtl ELSE <<DefaultTtlMs>>]

\* const ttl = entry.ttl || this.config.defaultTtl; now - entry.timestamp > ttl
IsExpired(entry, cfg, t) == Greater(t - entry.timestamp, OrElse(entry.ttl, cfg.defaultTtl))

\* A get that also resets the timestamp of the entry it reads.
CacheGetRefreshing(m, cfg, key, t) ==
    IF ~MapHas(m, key)
    THEN [cache |-> m, ret |-> null]
    ELSE LET entry == MapGet(m, key) IN
         IF IsExpired(entry, cfg, t)
         THEN [cache |-> MapDelete(m, key), ret |-> null]
         ELSE [cache |-> MapSet(MapDelete(m, key), key, [entry EXCEPT !.timestamp = t]),
               ret |-> entry.data]

\* A get that reads the entry where it is, without moving it.
CacheGetInPlace(m, cfg, key, t) ==
    IF ~MapHas(m, key)
    THEN [cache |-> m, ret |-> null]
    ELSE LET entry == MapGet(m, key) IN
         IF IsExpired(entry, cfg, t)
         THEN [cache |-> MapDelete(m, key), ret |-> null]
         ELSE [cache |-> m, ret |-> entry.data]

\* get(key): the table afterwards and the value returned
CacheGet(m, cfg, key, t) ==
    IF ~MapHas(m, key)
    THEN [cache |-> m, ret |-> null]
    ELSE LET entry == MapGet(m, key) IN
         IF IsExpired(entry, cfg, t)
         THEN [cache |-> MapDelete(m, key), ret |-> null]
         ELSE [cache |-> MapSet(MapDelete(m, key), key, entry), ret |-> entry.data]

\* A set that returns early, keeping the old entry, when the key is already held.
CacheSetKeepingOld(m, cfg, key, value, ttl, t) ==
    IF MapHas(m, key)
    THEN m
    ELSE LET oldestKey == IF Len(m) = 0 THEN undefined ELSE <<m[1].key>>
             m2 == IF GreaterEq(Len(m), cfg.maxSize) /\ TruthyString(oldestKey)
                   THEN MapDelete(m, oldestKey[1])
                   ELSE m
         IN MapSet(m2, key, [key |-> key, data |-> value, timestamp |-> t, ttl |-> ttl])

\* A set that evicts only once the table is over capacity.
CacheSetEvictingLate(m, cfg, key, value, ttl, t) ==
    LET m1 == IF MapHas(m, key) THEN MapDelete(m, key) ELSE m
        oldestKey == IF Len(m1) = 0 THEN undefined ELSE <<m1[1].key>>
        m2 == IF Greater(Len(m1), cfg.maxSize) /\ TruthyString(oldestKey)
              THEN MapDelete(m1, oldestKey[1])
              ELSE m1
    IN MapSet(m2, key, [key |-> key, data |-> value, timestamp |-> t, ttl |-> ttl])

\* set(key, value, ttl): the table afterwards
CacheSet(m, cfg, key, value, ttl, t) ==
    LET m1 == IF MapHas(m, key) THEN MapDelete(m, key) ELSE m
        oldestKey == IF Len(m1) = 0 THEN undefined ELSE <<m1[1].key>>
        m2 == IF GreaterEq(Len(m1), cfg.maxSize) /\ TruthyString(oldestKey)
              THEN MapDelete(m1, oldestKey[1])
              ELSE m1
    IN MapSet(m2, key, [key |-> key, data |-> value, timestamp |-> t, ttl |-> ttl])

\* A clear that empties the table whenever it did not delete the given key.
CacheClearAllOnMiss(m, key) ==
    IF TruthyString(key) /\ MapHas(m, key[1]) THEN MapDelete(m, key[1]) ELSE << >>

\* clear(key?): the table afterwards
CacheClear(m, key) == IF TruthyString(key) THEN MapDelete(m, key[1]) ELSE << >>

\* getStats(): the table afterwards and the report returned
CacheGetStats(m, cfg) ==
    [cache |-> m,
     ret |-> [size |-> Len(m), maxSize |-> cfg.maxSize, keys |-> MapKeys(m)]]

\* cleanup(): the table afterwards and the count returned
CacheCleanup(m, cfg, t) ==
    LET kept == SelectSeq(m, LAMBDA e : ~IsExpired(e, cfg, t))
    IN [cache |-> kept, ret |-> Len(m) - Len(kept)]

-----------------------------------------------------------------------------
(* The provider in use: one action per public method, and the passing of time *)

Init ==
    /\ cache = << >>
    /\ \E n \in 1..MaxCapacity :
           config = Constructor([maxSize |-> <<n>>, defaultTtl |-> TestDefaultTtl])
    /\ now = 0
    /\ last = [op |-> "new"]
    /\ lastSet = [k \in Keys |-> null]
    /\ wrapper = [mode |-> "none"]
    /\ pending = << >>
    /\ resp = [op |-> "new"]
    /\ origin = << >>

Get(key) ==
    LET r == CacheGet(cache, config, key, now) IN
    /\ cache' = r.cache
    /\ last' = [op |-> "get", key |-> <<key>>, ret |-> r.ret]
    /\ UNCHANGED <<config, now, lastSet, wvars>>

Set(key, value, ttl) ==
    /\ cache' = CacheSet(cache, config, key, value, ttl, now)
    /\ last' = [op |-> "set", key |-> <<key>>, value |-> value, ttl |-> ttl]
    /\ lastSet' = [lastSet EXCEPT ![key] = value]
    /\ UNCHANGED <<config, now, wvars>>

Clear(key) ==
    /\ cache' = CacheClear(cache, key)
    /\ last' = [op |-> "clear", key |-> key]
    /\ UNCHANGED <<config, now, lastSet, wvars>>

\* A getStats that first sweeps the expired entries, to report only live ones.
GetStatsSweeping ==
    LET r == CacheGetStats(CacheCleanup(cache, config, now).cache, config) IN
    /\ cache' = r.cache
    /\ last' = [op |-> "getStats", ret |-> r.ret]
    /\ UNCHANGED <<config, now, lastSet, wvars>>

GetStats ==
    LET r == CacheGetStats(cache, config) IN
    /\ cache' = r.cache
    /\ last' = [op |-> "getStats", ret |-> r.ret]
    /\ UNCHANGED <<config, now, lastSet, wvars>>

Cleanup ==
    LET r == CacheCleanup(cache, config, now) IN
    /\ cache' = r.cache
    /\ last' = [op |-> "cleanup", ret |-> r.ret]
    /\ UNCHANGED <<config, now, lastSet, wvars>>

Tick ==
    /\ now < MaxTicks * ClockStep
    /\ now' = now + ClockStep
    /\ UNCHANGED <<cache, config, last, lastSet, wvars>>

Next ==
    \/ \E key \in Keys : Get(key)
    \/ \E key \in Keys, value \in Values, ttl \in TtlArgs : Set(key, value, ttl)
    \/ \E key \in {undefined} \cup {<<k>> : k \in Keys} : Clear(key)
    \/ GetStats
    \/ Cleanup
    \/ Tick

Spec == Init /\ [][Next]_vars

-----------------------------------------------------------------------------
(* The documented notion of liveness, stated independently of the code:    *)
(* an entry is live at t iff t - storedAt <= (entry.ttl, or the default    *)
(* TTL when the entry carries none).                                       *)

DocumentedTtl(entry) == IF entry.ttl # undefined THEN entry.ttl ELSE config.defaultTtl

LiveAt(entry, t) == ~Greater(t - entry.timestamp, DocumentedTtl(entry))

OptKeys == {undefined} \cup {<<k>> : k \in Keys}

(* The step just taken is the named call (every call records itself in     *)
(* last; only the passing of time changes now).                            *)
DidGet(k) == now' = now /\ last'.op = "get" /\ last'.key = <<k>>
DidSet(k) == now' = now /\ last'.op = "set" /\ last'.key = <<k>>
DidClear(key) == now' = now /\ last'.op = "clear" /\ last'.key = key
DidGetStats == now' = now /\ last'.op = "getStats"
DidCleanup == now' = now /\ last'.op = "cleanup"

-----------------------------------------------------------------------------
(* C1: round trip. A get(k) of an entry that is still held (no clear,      *)
(* cleanup, eviction or expired read removed it since the last set(k, v))  *)
(* and has not expired returns the value v of that most recent set.        *)
C1_RoundTrip ==
    [][\A k \in Keys :
          (DidGet(k) /\ MapHas(cache, k) /\ LiveAt(MapGet(cache, k), now))
              => last'.ret = lastSet[k]]_vars

(* C1 witness: a value is read back at a later time than it was stored,    *)
(* with another key held beside it.                                        *)
C1_Witness ==
    /\ last.op = "get"
    /\ last.ret # null
    /\ last.ret = lastSet[last.key[1]]
    /\ MapGet(cache, last.key[1]).timestamp < now
    /\ Len(cache) > 1

(* C2: capacity bound. Each time a set has completed, the number of held   *)
(* entries is at most the configured maxSize.                              *)
C2_CapacityBound == last.op = "set" => Len(cache) <= config.maxSize[1]

(* C3: LRU victim. A set(k, v) of a key that is not held, into a cache     *)
(* that holds maxSize entries, evicts exactly the least recently touched   *)
(* entry (the first in Map order) and keeps every other entry in order.    *)
C3_LruVictim ==
    [][\A k \in Keys :
          (DidSet(k) /\ ~MapHas(cache, k) /\ Len(cache) = config.maxSize[1])
              => /\ Len(cache') = Len(cache)
                 /\ SubSeq(cache', 1, Len(cache') - 1) = Tail(cache)
                 /\ cache'[Len(cache')].key = k]_vars

(* C4: TTL. A get at time t of an entry stored at s with per-entry TTL ttl *)
(* (the configured default when set was called without one) returns the    *)
(* stored value when t - s <= ttl, and otherwise returns null and removes  *)
(* the entry.                                                              *)
C4_TtlLiveness ==
    [][\A k \in Keys :
          (DidGet(k) /\ MapHas(cache, k))
              => IF LiveAt(MapGet(cache, k), now)
                 THEN last'.ret = MapGet(cache, k).data
                 ELSE last'.ret = null /\ ~MapHas(cache', k)]_vars

(* C5: get does not refresh the TTL. A successful get(k) leaves the        *)
(* entry's timestamp and per-entry TTL as they were; more generally the    *)
(* timestamp of a held key changes only by a set of that key, which resets *)
(* it to the time of the set.                                              *)
C5_GetKeepsTimestamp ==
    [][/\ \A k \in Keys :
            (DidGet(k) /\ last'.ret # null)
                => /\ MapHas(cache, k) /\ MapHas(cache', k)
                   /\ MapGet(cache', k).timestamp = MapGet(cache, k).timestamp
                   /\ MapGet(cache', k).ttl = MapGet(cache, k).ttl
       /\ \A k \in Keys :
            (MapHas(cache, k) /\ MapHas(cache', k)
               /\ MapGet(cache', k).timestamp # MapGet(cache, k).timestamp)
                => /\ DidSet(k)
                   /\ MapGet(cache', k).timestamp = now]_vars

(* C5 witness: an entry stored at time 0 has been read successfully at     *)
(* time 1 or later and still carries timestamp 0.                          *)
C5_Witness ==
    /\ last.op = "get"
    /\ last.ret # null
    /\ now > 0
    /\ MapGet(cache, last.key[1]).timestamp = 0

(* C6: set on a held key. The entry count does not grow, no other key is   *)
(* evicted, and the key's entry carries the new value and TTL, the time of *)
(* the set, and the most-recently-used position.                           *)
C6_OverwriteInPlace ==
    [][\A k \in Keys :
          (DidSet(k) /\ MapHas(cache, k))
              => cache' = Append(MapDelete(cache, k),
                                 [key |-> k, data |-> last'.value,
                                  timestamp |-> now, ttl |-> last'.ttl])]_vars

(* C7: clear. For every string key k, clear(k) removes exactly the entry   *)
(* for k (nothing when k is not held) and leaves the others and their      *)
(* order unchanged; clear() with no key empties the table.                 *)
C7_ClearExactlyOne ==
    [][/\ \A k \in Keys : DidClear(<<k>>) => cache' = MapDelete(cache, k)
       /\ DidClear(undefined) => cache' = << >>]_vars

(* C8: clear is idempotent and never fails. In every reachable state and   *)
(* for every argument (a key or none), clear is defined, and a second      *)
(* clear with the same argument leaves the table the first clear produced. *)
C8_ClearIdempotent ==
    /\ \A key \in OptKeys : ENABLED Clear(key)
    /\ last.op = "clear" => CacheClear(cache, last.key) = cache

(* C8 witness: a clear(k) of one key has run and left other entries.       *)
C8_Witness ==
    /\ last.op = "clear"
    /\ last.key # undefined
    /\ ~MapHas(cache, last.key[1])
    /\ Len(cache) > 0

(* C9: getStats is a read-only report. size is the number of physically    *)
(* held entries and keys lists them in Map order, expired entries          *)
(* included; maxSize is the configured capacity; the table and its order   *)
(* are unchanged.                                                          *)
C9_StatsReadOnly ==
    [][DidGetStats
          => /\ cache' = cache
             /\ last'.ret.size = Len(cache)
             /\ last'.ret.size = Cardinality(KeySet(cache))
             /\ last'.ret.keys = MapKeys(cache)
             /\ last'.ret.maxSize = config.maxSize]_vars

(* C9 witness: getStats has reported a table that holds an expired entry.  *)
C9_Witness ==
    /\ last.op = "getStats"
    /\ last.ret.size = Len(cache)
    /\ \E i \in 1..Len(cache) : ~LiveAt(cache[i], now) /\ IsExpired(cache[i], config, now)

(* C10: cleanup at time t removes every entry expired at t and no live     *)
(* one, returns the number removed, and keeps the rest and their order;    *)
(* get, set and getStats never sweep: they remove no entry other than the  *)
(* key read, the key written and the evicted oldest entry.                 *)
C10_CleanupExact ==
    [][/\ DidCleanup
            => /\ cache' = SelectSeq(cache, LAMBDA e : LiveAt(e, now))
               /\ last'.ret = Len(cache) - Len(cache')
       /\ \A k \in Keys : DidGet(k) => MapDelete(cache', k) = MapDelete(cache, k)
       /\ DidGetStats => cache' = cache
       /\ \A k \in Keys :
            DidSet(k)
                => LET rest == MapDelete(cache, k)
                       kept == SubSeq(cache', 1, Len(cache') - 1)
                   IN kept = rest \/ (Len(rest) > 0 /\ kept = Tail(rest))]_vars

-----------------------------------------------------------------------------
(* Strings. TLC concatenates strings but cannot index them, so a string    *)
(* that is searched (a cache key, a clearCache pattern) is spelled as the  *)
(* sequence of its characters and turned into a string by Str.             *)

RECURSIVE Str(_)
Str(cs) == IF cs = << >> THEN "" ELSE Head(cs) \o Str(Tail(cs))

(* Inputs of the CachedDataProvider model *)

WMaxTicks == 2                       \* clock advances in a run of the wrapper

Slugs == {"a"}                       \* get(slug)
Schemas == {"p"}                     \* select(schema, options)
\* select's options: {}, {limit: NaN}, {limit: Infinity}
SelectOptions == {[limit |-> undefined], [limit |-> <<"NaN">>], [limit |-> <<"Infinity">>]}
\* the collaborator's responses: data present or absent, with its own cached flag
Responses ==
    {[data |-> <<"d1">>, cached |-> FALSE, meta |-> "m1"],
     [data |-> <<"d2">>, cached |-> TRUE, meta |-> "m2"],
     [data |-> undefined, cached |-> FALSE, meta |-> "m1"]}
\* clearCache patterns: "get:*", "select:*", "g.t:*", "zz*"
PatternSpellings ==
    {<<"g", "e", "t", ":", "*">>, <<"s", "e", "l", "e", "c", "t", ":", "*">>,
     <<"g", ".", "t", ":", "*">>, <<"z", "z", "*">>}
Patterns == {Str(cs) : cs \in PatternSpellings}

-----------------------------------------------------------------------------
(* JSON.stringify(options) for an options object whose only own property   *)
(* is limit: an undefined value is omitted, NaN and Infinity become null.  *)

NumberSpellings == {<<"N", "a", "N">>, <<"I", "n", "f", "i", "n", "i", "t", "y">>, <<"1">>}

NumberChars(n) == CHOOSE cs \in NumberSpellings : Str(cs) = n

JsonNumberChars(n) ==
    IF n \in {"NaN", "Infinity", "-Infinity"} THEN <<"n", "u", "l", "l">> ELSE NumberChars(n)

JsonStringifyChars(options) ==
    <<"{">>
    \o (IF options.limit = undefined
        THEN << >>
        ELSE <<"\"", "l", "i", "m", "i", "t", "\"", ":">> \o JsonNumberChars(options.limit[1]))
    \o <<"}">>

JsonStringify(options) == Str(JsonStringifyChars(options))

-----------------------------------------------------------------------------
(* Cache keys *)

\* `get:${slug}`
GetCacheKey(slug) == "get:" \o slug

\* `select:${schema}:${JSON.stringify(options)}`
SelectCacheKey(schema, options) == "select:" \o schema \o ":" \o JsonStringify(options)

CacheKeys ==
    {GetCacheKey(s) : s \in Slugs}
        \cup {SelectCacheKey(sc, o) : sc \in Schemas, o \in SelectOptions}

\* the characters of the cache keys and of the patterns
KeySpellings ==
    {<<"g", "e", "t", ":", s>> : s \in Slugs}
        \cup {<<"s", "e", "l", "e", "c", "t", ":", sc, ":">> \o JsonStringifyChars(o) :
                 sc \in Schemas, o \in SelectOptions}

Spelling ==
    [str \in CacheKeys \cup Patterns \cup {""} |->
        CHOOSE cs \in KeySpellings \cup PatternSpellings \cup {<< >>} : Str(cs) = str]

Chars(str) == Spelling[str]

\* key.includes('*')
Includes(str, ch) == \E i \in 1..Len(Chars(str)) : Chars(str)[i] = ch

-----------------------------------------------------------------------------
(* new RegExp(key.replace(/\*/g, '.*')).test(cacheKey): an unanchored      *)
(* search in which '*' of the key stands for ".*" and '.' of the key, not  *)
(* being escaped, stands for any one character.                            *)

Suffix(cs, i) == SubSeq(cs, i, Len(cs))

RECURSIVE MatchHere(_, _)
MatchHere(p, cs) ==
    IF p = << >> THEN TRUE
    ELSE IF Head(p) = "*"
         THEN \E i \in 1..(Len(cs) + 1) : MatchHere(Tail(p), Suffix(cs, i))
    ELSE IF Head(p) = "."
         THEN cs # << >> /\ MatchHere(Tail(p), Tail(cs))
    ELSE cs # << >> /\ Head(cs) = Head(p) /\ MatchHere(Tail(p), Tail(cs))

RegExpTest(p, cs) == \E i \in 1..(Len(cs) + 1) : MatchHere(p, Suffix(cs, i))

-----------------------------------------------------------------------------
(* CachedDataProvider *)

WrapperDefaultTTL == 300000
WrapperDefaultMaxSize == 100

\* a ?? b
Coalesce(a, b) == IF a # undefined THEN a ELSE b

\* constructor(provider, cacheOptions): the wrapper's fields and the config
\* of the MemoryCacheProvider it holds (<< >> when it holds none).
\* cacheOptions.kind is "false", "true", "config" or "provider".
CachedDataProvider(cacheOptions) ==
    LET defaults == [defaultTTL |-> <<WrapperDefaultTTL>>, maxSize |-> <<WrapperDefaultMaxSize>>] IN
    CASE cacheOptions.kind = "false" ->
             [wrapper |-> [mode |-> "disabled", config |-> defaults, hasStats |-> FALSE],
              provider |-> << >>]
      [] cacheOptions.kind = "true" ->
             [wrapper |-> [mode |-> "default", config |-> defaults, hasStats |-> TRUE],
              provider |-> Constructor(<< >>)]
      [] cacheOptions.kind = "provider" ->
             [wrapper |-> [mode |-> "custom", config |-> defaults,
                           hasStats |-> cacheOptions.hasStats],
              provider |-> cacheOptions.provider]
      [] cacheOptions.kind = "config" ->
             [wrapper |-> [mode |-> "configured",
                           config |-> [defaultTTL |-> Coalesce(cacheOptions.defaultTTL,
                                                               <<WrapperDefaultTTL>>),
                                       maxSize |-> Coalesce(cacheOptions.maxSize,
                                                            <<WrapperDefaultMaxSize>>)],
                           hasStats |-> TRUE],
              provider |-> Constructor([maxSize |-> cacheOptions.maxSize,
                                        defaultTtl |-> cacheOptions.defaultTTL])]

\* the cache options the wrapper is constructed with
CacheOptionsInputs ==
    {[kind |-> "false"], [kind |-> "true"],
     [kind |-> "config", defaultTTL |-> <<ClockStep>>, maxSize |-> <<MaxCapacity>>]}
        \cup {[kind |-> "provider",
               provider |-> Constructor([maxSize |-> <<MaxCapacity>>,
                                         defaultTtl |-> TestDefaultTtl]),
               hasStats |-> h] : h \in BOOLEAN}

Enabled(w) == w.mode # "disabled"

\* if (cached): the cached payloads are objects, null is falsy
TruthyData(v) == v # null

\* Lookup, were it never to consult the cache
LookupSkippingCache(w, m, cfg, key, t) == [cache |-> m, cached |-> null]

\* get / select up to the await: the cache lookup under the cache key.
\* The table afterwards and the value found (null in disabled mode, where
\* nothing is looked up).
Lookup(w, m, cfg, key, t) ==
    IF ~Enabled(w)
    THEN [cache |-> m, cached |-> null]
    ELSE LET r == CacheGet(m, cfg, key, t) IN [cache |-> r.cache, cached |-> r.ret]

\* Complete, were disabled mode to normalise the cached flag of what it returns
CompleteForcingUncached(w, m, cfg, call, r, t) ==
    IF ~Enabled(w)
    THEN [cache |-> m, out |-> [r EXCEPT !.cached = FALSE], stored |-> FALSE,
          forwarded |-> <<call.args>>]
    ELSE IF TruthyData(call.cached)
    THEN [cache |-> m, out |-> [r EXCEPT !.data = <<call.cached>>, !.cached = TRUE],
          stored |-> FALSE, forwarded |-> <<call.args>>]
    ELSE [cache |-> IF r.data # undefined
                    THEN CacheSet(m, cfg, call.key, r.data[1], w.config.defaultTTL, t)
                    ELSE m,
          out |-> [r EXCEPT !.cached = FALSE],
          stored |-> r.data # undefined, forwarded |-> <<call.args>>]

\* Complete, were a hit to overwrite the cached value with the fresh data
CompleteRefreshingOnHit(w, m, cfg, call, r, t) ==
    IF ~Enabled(w)
    THEN [cache |-> m, out |-> r, stored |-> FALSE, forwarded |-> <<call.args>>]
    ELSE IF TruthyData(call.cached)
    THEN [cache |-> IF r.data # undefined
                    THEN CacheSet(m, cfg, call.key, r.data[1], w.config.defaultTTL, t)
                    ELSE m,
          out |-> [r EXCEPT !.data = <<call.cached>>, !.cached = TRUE],
          stored |-> r.data # undefined, forwarded |-> <<call.args>>]
    ELSE [cache |-> IF r.data # undefined
                    THEN CacheSet(m, cfg, call.key, r.data[1], w.config.defaultTTL, t)
                    ELSE m,
          out |-> [r EXCEPT !.cached = FALSE],
          stored |-> r.data # undefined, forwarded |-> <<call.args>>]

\* Complete, were a miss to return the collaborator's cached flag untouched
CompleteKeepingFlag(w, m, cfg, call, r, t) ==
    IF ~Enabled(w)
    THEN [cache |-> m, out |-> r, stored |-> FALSE, forwarded |-> <<call.args>>]
    ELSE IF TruthyData(call.cached)
    THEN [cache |-> m, out |-> [r EXCEPT !.data = <<call.cached>>, !.cached = TRUE],
          stored |-> FALSE, forwarded |-> <<call.args>>]
    ELSE [cache |-> IF r.data # undefined
                    THEN CacheSet(m, cfg, call.key, r.data[1], w.config.defaultTTL, t)
                    ELSE m,
          out |-> r,
          stored |-> r.data # undefined, forwarded |-> <<call.args>>]

\* Complete, were a miss to leave alone a key another call has populated
\* while this one was waiting
CompleteSkippingHeld(w, m, cfg, call, r, t) ==
    IF ~Enabled(w)
    THEN [cache |-> m, out |-> r, stored |-> FALSE, forwarded |-> <<call.args>>]
    ELSE IF TruthyData(call.cached)
    THEN [cache |-> m, out |-> [r EXCEPT !.data = <<call.cached>>, !.cached = TRUE],
          stored |-> FALSE, forwarded |-> <<call.args>>]
    ELSE [cache |-> IF r.data # undefined /\ ~MapHas(m, call.key)
                    THEN CacheSet(m, cfg, call.key, r.data[1], w.config.defaultTTL, t)
                    ELSE m,
          out |-> [r EXCEPT !.cached = FALSE],
          stored |-> r.data # undefined /\ ~MapHas(m, call.key),
          forwarded |-> <<call.args>>]

\* Complete, were a miss to drop its result when the cache was cleared while
\* it was waiting
CompleteHonouringClear(w, m, cfg, call, r, t) ==
    IF ~Enabled(w)
    THEN [cache |-> m, out |-> r, stored |-> FALSE, forwarded |-> <<call.args>>]
    ELSE IF TruthyData(call.cached)
    THEN [cache |-> m, out |-> [r EXCEPT !.data = <<call.cached>>, !.cached = TRUE],
          stored |-> FALSE, forwarded |-> <<call.args>>]
    ELSE [cache |-> IF r.data # undefined /\ ~call.cleared
                    THEN CacheSet(m, cfg, call.key, r.data[1], w.config.defaultTTL, t)
                    ELSE m,
          out |-> [r EXCEPT !.cached = FALSE],
          stored |-> r.data # undefined /\ ~call.cleared,
          forwarded |-> <<call.args>>]

\* Complete, were a miss to store without a TTL of its own
CompleteDefaultingTtl(w, m, cfg, call, r, t) ==
    IF ~Enabled(w)
    THEN [cache |-> m, out |-> r, stored |-> FALSE, forwarded |-> <<call.args>>]
    ELSE IF TruthyData(call.cached)
    THEN [cache |-> m, out |-> [r EXCEPT !.data = <<call.cached>>, !.cached = TRUE],
          stored |-> FALSE, forwarded |-> <<call.args>>]
    ELSE [cache |-> IF r.data # undefined
                    THEN CacheSet(m, cfg, call.key, r.data[1], undefined, t)
                    ELSE m,
          out |-> [r EXCEPT !.cached = FALSE],
          stored |-> r.data # undefined, forwarded |-> <<call.args>>]

\* get / select after the await, the collaborator having answered r to the
\* one invocation each branch makes with the caller's arguments: the table
\* afterwards, the response returned and whether data was stored.
Complete(w, m, cfg, call, r, t) ==
    IF ~Enabled(w)
    THEN [cache |-> m, out |-> r, stored |-> FALSE, forwarded |-> <<call.args>>]
    ELSE IF TruthyData(call.cached)
    THEN [cache |-> m, out |-> [r EXCEPT !.data = <<call.cached>>, !.cached = TRUE],
          stored |-> FALSE, forwarded |-> <<call.args>>]
    ELSE [cache |-> IF r.data # undefined
                    THEN CacheSet(m, cfg, call.key, r.data[1], w.config.defaultTTL, t)
                    ELSE m,
          out |-> [r EXCEPT !.cached = FALSE],
          stored |-> r.data # undefined, forwarded |-> <<call.args>>]

\* the loop of clearCache over stats.keys
RECURSIVE ClearMatching(_, _, _)
ClearMatching(m, keys, pattern) ==
    IF keys = << >> THEN m
    ELSE ClearMatching(IF RegExpTest(pattern, Chars(Head(keys)))
                       THEN CacheClear(m, <<Head(keys)>>)
                       ELSE m,
                       Tail(keys), pattern)

\* clearCache, were a call without key to leave the table alone
ClearCacheTableKeepingAll(w, m, cfg, key) ==
    IF ~Enabled(w) THEN m
    ELSE IF TruthyString(key)
    THEN IF Includes(key[1], "*")
         THEN IF w.hasStats
              THEN ClearMatching(m, CacheGetStats(m, cfg).ret.keys, Chars(key[1]))
              ELSE m
         ELSE CacheClear(m, key)
    ELSE m

\* clearCache, were a pattern on a provider without getStats to empty the table
ClearCacheTableFallingBack(w, m, cfg, key) ==
    IF ~Enabled(w) THEN m
    ELSE IF TruthyString(key)
    THEN IF Includes(key[1], "*")
         THEN IF w.hasStats
              THEN ClearMatching(m, CacheGetStats(m, cfg).ret.keys, Chars(key[1]))
              ELSE CacheClear(m, undefined)
         ELSE CacheClear(m, key)
    ELSE CacheClear(m, undefined)

\* clearCache(key?): the table afterwards
ClearCacheTable(w, m, cfg, key) ==
    IF ~Enabled(w) THEN m
    ELSE IF TruthyString(key)
    THEN IF Includes(key[1], "*")
         THEN IF w.hasStats
              THEN ClearMatching(m, CacheGetStats(m, cfg).ret.keys, Chars(key[1]))
              ELSE m
         ELSE CacheClear(m, key)
    ELSE CacheClear(m, undefined)

\* getCacheStats, were the disabled report to claim caching enabled
GetCacheStatsReportClaimingEnabled(w, m, cfg) ==
    IF ~Enabled(w)
    THEN [totalEntries |-> 0, validEntries |-> 0, expiredEntries |-> 0,
          maxSize |-> w.config.maxSize, defaultTTL |-> w.config.defaultTTL,
          cachingEnabled |-> TRUE]
    ELSE LET stats == IF w.hasStats THEN <<CacheGetStats(m, cfg).ret>> ELSE undefined IN
         [totalEntries |-> IF stats # undefined THEN stats[1].size ELSE 0,
          validEntries |-> IF stats # undefined THEN stats[1].size ELSE 0,
          expiredEntries |-> 0,
          maxSize |-> IF stats # undefined THEN Coalesce(stats[1].maxSize, w.config.maxSize)
                      ELSE w.config.maxSize,
          defaultTTL |-> w.config.defaultTTL,
          cachingEnabled |-> TRUE,
          keys |-> IF stats # undefined THEN stats[1].keys ELSE << >>]

\* getCacheStats, were it to report the wrapper's own maxSize always
GetCacheStatsReportOwnMaxSize(w, m, cfg) ==
    IF ~Enabled(w)
    THEN [totalEntries |-> 0, validEntries |-> 0, expiredEntries |-> 0,
          maxSize |-> w.config.maxSize, defaultTTL |-> w.config.defaultTTL,
          cachingEnabled |-> FALSE]
    ELSE LET stats == IF w.hasStats THEN <<CacheGetStats(m, cfg).ret>> ELSE undefined IN
         [totalEntries |-> IF stats # undefined THEN stats[1].size ELSE 0,
          validEntries |-> IF stats # undefined THEN stats[1].size ELSE 0,
          expiredEntries |-> 0,
          maxSize |-> w.config.maxSize,
          defaultTTL |-> w.config.defaultTTL,
          cachingEnabled |-> TRUE,
          keys |-> IF stats # undefined THEN stats[1].keys ELSE << >>]

\* getCacheStats()
GetCacheStatsReport(w, m, cfg) ==
    IF ~Enabled(w)
    THEN [totalEntries |-> 0, validEntries |-> 0, expiredEntries |-> 0,
          maxSize |-> w.config.maxSize, defaultTTL |-> w.config.defaultTTL,
          cachingEnabled |-> FALSE]
    ELSE LET stats == IF w.hasStats THEN <<CacheGetStats(m, cfg).ret>> ELSE undefined IN
         [totalEntries |-> IF stats # undefined THEN stats[1].size ELSE 0,
          validEntries |-> IF stats # undefined THEN stats[1].size ELSE 0,
          expiredEntries |-> 0,
          maxSize |-> IF stats # undefined THEN Coalesce(stats[1].maxSize, w.config.maxSize)
                      ELSE w.config.maxSize,
          defaultTTL |-> w.config.defaultTTL,
          cachingEnabled |-> TRUE,
          keys |-> IF stats # undefined THEN stats[1].keys ELSE << >>]

-----------------------------------------------------------------------------------------------------------------------------------------------------
(* The wrapper in use by one caller, who awaits each call before the next. *)
(* origin records, for every key the table holds, the call and the data    *)
(* that populated it and when; the awaited call records the table as it    *)
(* was when the call started and whether it held the call's key.           *)

NoOrigin == [op |-> "none"]

\* the keys an entry can be held under: the cache keys and ""
HeldKeys == CacheKeys \cup {""}

Sync(o, m) == [k \in HeldKeys |-> IF MapHas(m, k) THEN o[k] ELSE NoOrigin]

WInit ==
    /\ \E o \in CacheOptionsInputs :
           /\ wrapper = CachedDataProvider(o).wrapper
           /\ config = CachedDataProvider(o).provider
    /\ cache = << >>
    /\ now = 0
    /\ last = [op |-> "new"]
    /\ lastSet = [k \in Keys |-> null]
    /\ pending = << >>
    /\ resp = [op |-> "new"]
    /\ origin = [k \in HeldKeys |-> NoOrigin]

Start(op, args, key) ==
    LET r == Lookup(wrapper, cache, config, key, now) IN
    /\ pending = << >>
    /\ cache' = r.cache
    /\ pending' = <<[op |-> op, args |-> args, key |-> key, cached |-> r.cached,
                     held |-> MapHas(cache, key), before |-> cache]>>
    /\ resp' = [op |-> "pending"]
    /\ origin' = Sync(origin, r.cache)
    /\ UNCHANGED <<config, now, last, lastSet, wrapper>>

WGet(slug) == Start("get", [slug |-> slug], GetCacheKey(slug))

WSelect(schema, options) ==
    Start("select", [schema |-> schema, options |-> options], SelectCacheKey(schema, options))

\* the collaborator answers the awaited call with r
Resolve(r) ==
    /\ pending # << >>
    /\ LET call == Head(pending)
           c == Complete(wrapper, cache, config, call, r, now)
       IN /\ cache' = c.cache
          /\ resp' = [op |-> call.op, forwarded |-> c.forwarded, raw |-> r, out |-> c.out,
                      expired |-> call.held /\ call.cached = null]
          /\ origin' = Sync(IF c.stored
                            THEN [origin EXCEPT ![call.key] =
                                     [op |-> call.op, args |-> call.args, data |-> r.data[1],
                                      at |-> now]]
                            ELSE origin,
                            c.cache)
    /\ pending' = Tail(pending)
    /\ UNCHANGED <<config, now, last, lastSet, wrapper>>

ClearCache(key) ==
    /\ pending = << >>
    /\ cache' = ClearCacheTable(wrapper, cache, config, key)
    /\ resp' = [op |-> "clearCache", key |-> key, removed |-> Len(cache) - Len(cache')]
    /\ origin' = Sync(origin, cache')
    /\ UNCHANGED <<config, now, last, lastSet, wrapper, pending>>

GetCacheStats ==
    /\ pending = << >>
    /\ resp' = [op |-> "getCacheStats", out |-> GetCacheStatsReport(wrapper, cache, config)]
    /\ UNCHANGED <<cache, config, now, last, lastSet, wrapper, pending, origin>>

\* time passes, also while a call awaits the collaborator
WTick ==
    /\ now < WMaxTicks * ClockStep
    /\ now' = now + ClockStep
    /\ UNCHANGED <<cache, config, last, lastSet, wvars>>

\* the keys clearCache is called with: none, "", a cache key, a pattern
ClearCacheArgs == {undefined, <<"">>} \cup {<<k>> : k \in CacheKeys \cup Patterns}

WNext ==
    \/ \E slug \in Slugs : WGet(slug)
    \/ \E schema \in Schemas, options \in SelectOptions : WSelect(schema, options)
    \/ \E r \in Responses : Resolve(r)
    \/ \E key \in ClearCacheArgs : ClearCache(key)
    \/ GetCacheStats
    \/ WTick

SpecWrapper == WInit /\ [][WNext]_vars

-----------------------------------------------------------------------------
(* The wrapper with a collaborator that can fail (SpecFailing) and with    *)
(* its administrative operation (SpecSeeded)                               *)

\* setCacheEntryManually(key, data, ttl?) is called with
SeedKeys == {"get:a"}
SeedData == {"s1"}
SeedTtls == {undefined, <<0>>, <<1>>}

\* the errors the collaborator raises
Errors == {"e1"}

\* setCacheEntryManually, were it to store the ttl argument as given
SetCacheEntryManuallyExactTtl(w, m, cfg, key, data, ttl, t) ==
    IF ~Enabled(w) THEN m
    ELSE CacheSet(m, cfg, key, data, ttl, t)

\* setCacheEntryManually(key, data, ttl?): the table afterwards
\* set(key, data, ttl || this.config.defaultTTL)
SetCacheEntryManuallyTable(w, m, cfg, key, data, ttl, t) ==
    IF ~Enabled(w) THEN m
    ELSE CacheSet(m, cfg, key, data, OrElse(ttl, w.config.defaultTTL), t)

\* get / select, were they to catch the collaborator's error and raise their own
FailWrapping(w, m, cfg, call, e, t) ==
    [cache |-> m, thrown |-> "CacheError", forwarded |-> <<call.args>>]

\* get / select when the awaited collaborator call raises e: nothing after
\* the await runs and no handler encloses it
Fail(w, m, cfg, call, e, t) ==
    [cache |-> m, thrown |-> e, forwarded |-> <<call.args>>]

\* the collaborator fails the awaited call with e
Reject(e) ==
    /\ pending # << >>
    /\ LET call == Head(pending)
           c == Fail(wrapper, cache, config, call, e, now)
       IN /\ cache' = c.cache
          /\ resp' = [op |-> call.op, forwarded |-> c.forwarded, raised |-> e,
                      thrown |-> c.thrown]
          /\ origin' = Sync(origin, c.cache)
    /\ pending' = Tail(pending)
    /\ UNCHANGED <<config, now, last, lastSet, wrapper>>

WNextFailing ==
    \/ WNext
    \/ \E e \in Errors : Reject(e)

SpecFailing == WInit /\ [][WNextFailing]_vars

\* the cache options of the seeded wrapper: false, a config object with and
\* without maxSize
SeededOptionsInputs ==
    {[kind |-> "false"],
     [kind |-> "config", defaultTTL |-> <<ClockStep>>, maxSize |-> <<MaxCapacity>>],
     [kind |-> "config", defaultTTL |-> <<ClockStep>>, maxSize |-> undefined]}

WInitSeeded ==
    /\ \E o \in SeededOptionsInputs :
           /\ wrapper = CachedDataProvider(o).wrapper
           /\ config = CachedDataProvider(o).provider
    /\ cache = << >>
    /\ now = 0
    /\ last = [op |-> "new"]
    /\ lastSet = [k \in Keys |-> null]
    /\ pending = << >>
    /\ resp = [op |-> "new"]
    /\ origin = [k \in HeldKeys |-> NoOrigin]

SetCacheEntryManually(key, data, ttl) ==
    /\ pending = << >>
    /\ cache' = SetCacheEntryManuallyTable(wrapper, cache, config, key, data, ttl, now)
    /\ resp' = [op |-> "setCacheEntryManually", key |-> key, data |-> data, ttl |-> ttl]
    /\ origin' = Sync(IF Enabled(wrapper)
                      THEN [origin EXCEPT ![key] =
                               [op |-> "seed", args |-> [seed |-> TRUE], data |-> data,
                                at |-> now]]
                      ELSE origin,
                      cache')
    /\ UNCHANGED <<config, now, last, lastSet, wrapper, pending>>

WNextSeeded ==
    \/ WNext
    \/ \E key \in SeedKeys, data \in SeedData, ttl \in SeedTtls :
           SetCacheEntryManually(key, data, ttl)

SpecSeeded == WInitSeeded /\ [][WNextSeeded]_vars

-----------------------------------------------------------------------------
(* Two callers using one wrapper at once. A call runs without interruption *)
(* up to its await and from the collaborator's answer to its return;       *)
(* anything can happen on the instance while it waits. Here pending maps   *)
(* each caller to the call it awaits, which also records whether the cache *)
(* was cleared of its key while it waited.                                 *)

Callers == {"c1", "c2"}

Idle == [op |-> "idle"]

\* the calls the callers make: get("a") and select("p")
ConcurrentCalls ==
    {[op |-> "get", args |-> [slug |-> "a"], key |-> GetCacheKey("a")],
     [op |-> "select", args |-> [schema |-> "p", options |-> [limit |-> undefined]],
      key |-> SelectCacheKey("p", [limit |-> undefined])]}

\* the cache options of the shared wrapper: a config object with a maxSize
\* of 1..MaxCapacity
ConcurrentOptionsInputs ==
    {[kind |-> "config", defaultTTL |-> <<ClockStep>>, maxSize |-> <<n>>] :
        n \in 1..MaxCapacity}

CInit ==
    /\ \E o \in ConcurrentOptionsInputs :
           /\ wrapper = CachedDataProvider(o).wrapper
           /\ config = CachedDataProvider(o).provider
    /\ cache = << >>
    /\ now = 0
    /\ last = [op |-> "new"]
    /\ lastSet = [k \in Keys |-> null]
    /\ pending = [c \in Callers |-> Idle]
    /\ resp = [op |-> "new"]
    /\ origin = [k \in HeldKeys |-> NoOrigin]

\* caller c starts a get or select, which runs up to its await
CStart(c, call) ==
    LET r == Lookup(wrapper, cache, config, call.key, now) IN
    /\ pending[c] = Idle
    /\ cache' = r.cache
    /\ pending' = [pending EXCEPT ![c] =
                      [op |-> call.op, args |-> call.args, key |-> call.key,
                       cached |-> r.cached, cleared |-> FALSE]]
    /\ resp' = [op |-> "pending"]
    /\ UNCHANGED <<config, now, last, lastSet, wrapper, origin>>

\* the collaborator answers caller c's call with r, and the call returns
CResolve(c, r) ==
    /\ pending[c] # Idle
    /\ LET call == pending[c]
           done == Complete(wrapper, cache, config, call, r, now)
       IN /\ cache' = done.cache
          /\ resp' = [op |-> call.op, key |-> call.key, forwarded |-> done.forwarded,
                      raw |-> r, out |-> done.out, missed |-> call.cached = null,
                      cleared |-> call.cleared,
                      overwrote |-> done.stored /\ MapHas(cache, call.key)]
    /\ pending' = [pending EXCEPT ![c] = Idle]
    /\ UNCHANGED <<config, now, last, lastSet, wrapper, origin>>

\* clearCache() or clearCache(key), possibly while calls wait
CClearCache(key) ==
    /\ cache' = ClearCacheTable(wrapper, cache, config, key)
    /\ pending' = [c \in Callers |->
                      IF pending[c] # Idle /\ (key = undefined \/ key = <<pending[c].key>>)
                      THEN [pending[c] EXCEPT !.cleared = TRUE]
                      ELSE pending[c]]
    /\ resp' = [op |-> "clearCache", key |-> key]
    /\ UNCHANGED <<config, now, last, lastSet, wrapper, origin>>

CNext ==
    \/ \E c \in Callers, call \in ConcurrentCalls : CStart(c, call)
    \/ \E c \in Callers, r \in Responses : CResolve(c, r)
    \/ \E key \in {undefined} \cup {<<call.key>> : call \in ConcurrentCalls} : CClearCache(key)
    \/ Tick

SpecConcurrent == CInit /\ [][CNext]_vars

-----------------------------------------------------------------------------
(* Properties of CachedDataProvider, checked under SpecWrapper *)

\* the step is the return of a get or select call
Returns == pending # << >> /\ pending' = << >>

\* the call that returns in this step
Call == Head(pending)

\* C11, as stated: in disabled mode nothing is ever stored and every get and
\* select call invokes the collaborator exactly once with the caller's
\* arguments, returns the collaborator's response unchanged and reports
\* cached: false.
C11_DisabledReportsUncached ==
    [][wrapper.mode = "disabled" =>
           /\ cache' = << >>
           /\ Returns => /\ resp'.forwarded = <<Call.args>>
                         /\ resp'.out = resp'.raw
                         /\ resp'.out.cached = FALSE]_vars

\* C11, amended: in disabled mode nothing is ever stored and every get and
\* select call invokes the collaborator exactly once with the caller's
\* arguments and returns the collaborator's response unchanged, its cached
\* flag included.
C11_DisabledPassThrough ==
    [][wrapper.mode = "disabled" =>
           /\ cache' = << >>
           /\ Returns => /\ resp'.forwarded = <<Call.args>>
                         /\ resp'.out = resp'.raw]_vars

\* a disabled wrapper has returned a response the collaborator marked cached
C11_Witness ==
    /\ wrapper.mode = "disabled"
    /\ resp.op = "get"
    /\ resp.out.data # undefined
    /\ resp.out.cached

\* the step is the start of a get or select call, up to its await
Starts == pending = << >> /\ pending' # << >>

\* the entry held under key k has not outlived the wrapper's default TTL at t
WLive(k, t) == t - MapGet(cache, k).timestamp <= wrapper.config.defaultTTL[1]

\* C12: in every enabled mode a get or select whose key is not held finds
\* nothing and, the collaborator's response carrying data, reports cached:
\* false; a get or select whose key is held, was populated by a call with the
\* same arguments and has not expired finds the data of that first response
\* and reports cached: true with exactly that data.
C12_HitAfterMiss ==
    [][Enabled(wrapper) =>
           /\ Starts =>
                  LET call == Head(pending') IN
                  /\ ~MapHas(cache, call.key) => call.cached = null
                  /\ (/\ MapHas(cache, call.key)
                      /\ origin[call.key].args = call.args
                      /\ WLive(call.key, now)) => call.cached = origin[call.key].data
           /\ Returns =>
                  /\ (Call.cached = null /\ resp'.raw.data # undefined) => ~resp'.out.cached
                  /\ Call.cached # null =>
                         resp'.out.cached /\ resp'.out.data = <<Call.cached>>]_vars

\* a later get has reported cached: true with the first response's data
\* although the collaborator now answers with other data
C12_Witness ==
    /\ Enabled(wrapper)
    /\ resp.op = "get"
    /\ resp.out.cached
    /\ resp.out.data = <<"d1">>
    /\ resp.raw.data = <<"d2">>
    /\ origin[GetCacheKey("a")].data = "d1"

\* C13: when the lookup of a get or select found an entry, the collaborator
\* is invoked exactly once with the caller's arguments, the response returned
\* has the fresh response's fields except that data is the cached value and
\* cached is true, and the table, the cached value included, is left as it was.
C13_HitEnvelope ==
    [][(Enabled(wrapper) /\ Returns /\ Call.cached # null) =>
           /\ resp'.forwarded = <<Call.args>>
           /\ DOMAIN resp'.out = DOMAIN resp'.raw
           /\ \A f \in DOMAIN resp'.raw \ {"data", "cached"} : resp'.out[f] = resp'.raw[f]
           /\ resp'.out.data = <<Call.cached>>
           /\ resp'.out.cached
           /\ cache' = cache
           /\ MapGet(cache', Call.key).data = Call.cached]_vars

\* a select hit has returned the cached data inside the envelope of a fresh
\* response whose data differs
C13_Witness ==
    /\ Enabled(wrapper)
    /\ resp.op = "select"
    /\ resp.out.cached
    /\ resp.out.meta = "m2"
    /\ resp.raw.data = <<"d2">>
    /\ resp.out.data = <<"d1">>
    /\ \E i \in 1..Len(cache) : cache[i].data = "d1"

\* C14: when the lookup of a get(slug) found nothing, the collaborator is
\* invoked exactly once with slug, the response returned is the
\* collaborator's with cached false, and afterwards "get:" + slug holds the
\* collaborator's data, stamped now with the wrapper's default TTL, if the
\* response carries data; if it carries none the table is unchanged and
\* holds no entry for the key, so that the next get(slug) misses again.
C14_MissStores ==
    [][(Enabled(wrapper) /\ Returns /\ Call.op = "get" /\ Call.cached = null) =>
           /\ resp'.forwarded = <<Call.args>>
           /\ resp'.out = [resp'.raw EXCEPT !.cached = FALSE]
           /\ resp'.raw.data # undefined =>
                  /\ MapHas(cache', "get:" \o Call.args.slug)
                  /\ MapGet(cache', "get:" \o Call.args.slug) =
                         [key |-> "get:" \o Call.args.slug, data |-> resp'.raw.data[1],
                          timestamp |-> now, ttl |-> wrapper.config.defaultTTL]
           /\ resp'.raw.data = undefined =>
                  /\ cache' = cache
                  /\ ~MapHas(cache', "get:" \o Call.args.slug)]_vars

\* a get miss has stored the data of a response the collaborator had marked
\* cached and has reported cached: false
C14_Witness ==
    /\ Enabled(wrapper)
    /\ resp.op = "get"
    /\ resp.raw.cached
    /\ ~resp.out.cached
    /\ MapHas(cache, "get:a")
    /\ MapGet(cache, "get:a").data = "d2"
    /\ MapGet(cache, "get:a").timestamp = now

\* C15: a select(schema, options) call finds an entry only if that entry was
\* stored by a select with the same schema and the same options, so that
\* selects differing in schema or in an option value never see each other's
\* data and no select sees a get's.
C15_SelectKeysDistinct ==
    [][(Enabled(wrapper) /\ Starts /\ Head(pending').op = "select"
           /\ Head(pending').cached # null) =>
           /\ origin[Head(pending').key].op = "select"
           /\ origin[Head(pending').key].args = Head(pending').args]_vars

\* C16: in configured mode with default TTL d, a get issued more than d
\* after the miss that populated its entry, whatever hits came in between,
\* finds nothing; it then invokes the collaborator, reports cached: false
\* and, the response carrying data, stores the entry again stamped now.
C16_TtlExpiry ==
    [][wrapper.mode = "configured" =>
           /\ (/\ Starts
               /\ Head(pending').op = "get"
               /\ MapHas(cache, Head(pending').key)
               /\ now - origin[Head(pending').key].at > wrapper.config.defaultTTL[1])
                  => Head(pending').cached = null
           /\ (Returns /\ Call.op = "get" /\ Call.cached = null) =>
                  /\ resp'.forwarded = <<Call.args>>
                  /\ ~resp'.out.cached
                  /\ resp'.raw.data # undefined =>
                         /\ MapHas(cache', Call.key)
                         /\ MapGet(cache', Call.key).timestamp = now
                         /\ MapGet(cache', Call.key).data = resp'.raw.data[1]]_vars

\* a get has found its entry expired, reported cached: false and stored the
\* fresh data with a fresh timestamp
C16_Witness ==
    /\ wrapper.mode = "configured"
    /\ resp.op = "get"
    /\ resp.expired
    /\ ~resp.out.cached
    /\ now > wrapper.config.defaultTTL[1]
    /\ resp.raw.data = <<"d2">>
    /\ MapHas(cache, "get:a")
    /\ MapGet(cache, "get:a").timestamp = now

\* the step is a clearCache call (no other step leaves resp a clearCache record
\* without moving the clock)
Clears == now' = now /\ pending = << >> /\ resp'.op = "clearCache"

\* C17: clearCache(key) with a key that contains no '*' removes the entry
\* stored under that key, if there is one, and leaves every other entry, and
\* their order, as they were.
C17_ClearExactKey ==
    [][(Enabled(wrapper) /\ Clears /\ resp'.key # undefined /\ resp'.key[1] \notin Patterns) =>
           cache' = MapDelete(cache, resp'.key[1])]_vars

\* C18: clearCache() without a key leaves the table empty, and on an empty
\* table every get and select finds nothing and reports cached: false.
C18_ClearAll ==
    [][Enabled(wrapper) =>
           /\ (Clears /\ resp'.key = undefined) => cache' = << >>
           /\ (Starts /\ cache = << >>) => Head(pending').cached = null
           /\ (Returns /\ Call.cached = null) => ~resp'.out.cached]_vars

\* clearCache() has removed two entries at once
C18_Witness ==
    /\ Enabled(wrapper)
    /\ resp.op = "clearCache"
    /\ resp.key = undefined
    /\ resp.removed = 2
    /\ cache = << >>

\* the documented matching of a clearCache pattern: the key contains the
\* pattern, each '*' standing for any character sequence and every other
\* character for itself
RECURSIVE GlobHere(_, _)
GlobHere(p, cs) ==
    IF p = << >> THEN TRUE
    ELSE IF Head(p) = "*"
         THEN \E i \in 1..(Len(cs) + 1) : GlobHere(Tail(p), Suffix(cs, i))
    ELSE cs # << >> /\ Head(cs) = Head(p) /\ GlobHere(Tail(p), Tail(cs))

GlobMatches(p, cs) == \E i \in 1..(Len(cs) + 1) : GlobHere(p, Suffix(cs, i))

\* C19: on a cache provider with getStats, clearCache(P) with a pattern P
\* containing '*' removes every held key that matches P and keeps, in their
\* order, every held key that does not, where only '*' is special in P; a
\* pattern matching no key leaves the table as it was.
C19_WildcardClear ==
    [][(/\ Enabled(wrapper)
        /\ wrapper.hasStats
        /\ Clears
        /\ resp'.key # undefined
        /\ resp'.key[1] \in Patterns) =>
           LET p == Chars(resp'.key[1]) IN
           cache' = SelectSeq(cache, LAMBDA e : ~GlobMatches(p, Chars(e.key)))]_vars

\* C20: with a custom cache provider that has no getStats, clearCache with a
\* key containing '*' leaves the table as it was, and getCacheStats returns
\* a report of zero entries and no keys with cachingEnabled true and the
\* wrapper's own maxSize and default TTL.
C20_NoStatsDegrades ==
    [][(wrapper.mode = "custom" /\ ~wrapper.hasStats /\ now' = now /\ pending = << >>) =>
           /\ (resp'.op = "clearCache" /\ resp'.key # undefined /\ resp'.key[1] \in Patterns)
                  => cache' = cache
           /\ resp'.op = "getCacheStats" =>
                  /\ cache' = cache
                  /\ resp'.out.totalEntries = 0
                  /\ resp'.out.validEntries = 0
                  /\ resp'.out.keys = << >>
                  /\ resp'.out.cachingEnabled
                  /\ resp'.out.maxSize = wrapper.config.maxSize
                  /\ resp'.out.defaultTTL = wrapper.config.defaultTTL]_vars

\* a wildcard clearCache on a provider without getStats has left a matching
\* entry in place
C20_Witness ==
    /\ wrapper.mode = "custom"
    /\ ~wrapper.hasStats
    /\ resp.op = "clearCache"
    /\ resp.key = <<"get:*">>
    /\ resp.removed = 0
    /\ MapHas(cache, "get:a")

-----------------------------------------------------------------------------
(* Properties of the seeded wrapper, checked under SpecSeeded *)

\* the step is a call that returns at once: clearCache, getCacheStats or
\* setCacheEntryManually
Immediate == now' = now /\ pending = << >> /\ pending' = << >>

\* C21: in disabled mode every clearCache (no key, exact key, wildcard) and
\* every setCacheEntryManually leaves the state as it was and starts no
\* collaborator call, the table stays empty, and every getCacheStats
\* reports zero total, valid and expired entries and cachingEnabled: false.
C21_DisabledAdminNoOps ==
    [][(wrapper.mode = "disabled" /\ Immediate) =>
           /\ resp'.op \in {"clearCache", "setCacheEntryManually"} =>
                  /\ cache' = cache
                  /\ cache' = << >>
                  /\ UNCHANGED <<config, wrapper, pending, origin>>
           /\ resp'.op = "getCacheStats" =>
                  /\ resp'.out.totalEntries = 0
                  /\ resp'.out.validEntries = 0
                  /\ resp'.out.expiredEntries = 0
                  /\ ~resp'.out.cachingEnabled]_vars

\* a disabled wrapper has been asked to seed an entry and holds none
C21_Witness ==
    /\ wrapper.mode = "disabled"
    /\ resp.op = "setCacheEntryManually"
    /\ resp.key = "get:a"
    /\ cache = << >>

-----------------------------------------------------------------------------
(* Further properties of CachedDataProvider, checked under SpecWrapper *)

\* C22, as stated: the report of getCacheStats on an enabled wrapper has
\* totalEntries and validEntries equal to the number of entries the table
\* holds, expired ones included, expiredEntries 0, cachingEnabled true, the
\* wrapper's default TTL and, in default and configured mode, the wrapper's
\* maxSize.
C22_StatsCountEntries ==
    (Enabled(wrapper) /\ resp.op = "getCacheStats") =>
        /\ resp.out.totalEntries = Len(cache)
        /\ resp.out.validEntries = Len(cache)
        /\ resp.out.expiredEntries = 0
        /\ resp.out.cachingEnabled
        /\ wrapper.mode # "custom" => resp.out.maxSize = wrapper.config.maxSize
        /\ resp.out.defaultTTL = wrapper.config.defaultTTL

\* C22, amended: as stated when the cache provider has getStats, maxSize
\* being the custom provider's own in custom mode; for a custom provider
\* without getStats totalEntries and validEntries are 0 and maxSize is the
\* wrapper's.
C22_StatsCountEntriesWithStats ==
    (Enabled(wrapper) /\ resp.op = "getCacheStats") =>
        /\ resp.out.totalEntries = (IF wrapper.hasStats THEN Len(cache) ELSE 0)
        /\ resp.out.validEntries = (IF wrapper.hasStats THEN Len(cache) ELSE 0)
        /\ resp.out.expiredEntries = 0
        /\ resp.out.cachingEnabled
        /\ resp.out.maxSize =
               (IF wrapper.mode = "custom" /\ wrapper.hasStats
                THEN config.maxSize
                ELSE wrapper.config.maxSize)
        /\ resp.out.defaultTTL = wrapper.config.defaultTTL

\* getCacheStats on a configured wrapper has counted an entry that has
\* outlived its TTL and reported the configured capacity
C22_Witness ==
    /\ wrapper.mode = "configured"
    /\ resp.op = "getCacheStats"
    /\ resp.out.totalEntries = Len(cache)
    /\ resp.out.maxSize = <<MaxCapacity>>
    /\ \E i \in 1..Len(cache) : now - cache[i].timestamp > wrapper.config.defaultTTL[1]

\* C30: every entry stored through get or select carries the wrapper's
\* default TTL as its own TTL, which in default and custom mode is the
\* built-in 5 minutes, and the provider finds the entry expired exactly
\* when that TTL has passed, whatever the provider's own defaultTtl.
C30_EntriesCarryWrapperTtl ==
    Enabled(wrapper) =>
        \A i \in 1..Len(cache) :
            /\ cache[i].ttl = wrapper.config.defaultTTL
            /\ wrapper.mode \in {"default", "custom"} => cache[i].ttl = <<WrapperDefaultTTL>>
            /\ IsExpired(cache[i], config, now)
                   <=> now - cache[i].timestamp > wrapper.config.defaultTTL[1]

\* a get on a custom provider has been served from an entry older than the
\* provider's own defaultTtl
C30_Witness ==
    /\ wrapper.mode = "custom"
    /\ resp.op = "get"
    /\ resp.out.cached
    /\ MapHas(cache, "get:a")
    /\ now - MapGet(cache, "get:a").timestamp > config.defaultTtl[1]
    /\ ~IsExpired(MapGet(cache, "get:a"), config, now)

-----------------------------------------------------------------------------
(* Further properties of the seeded wrapper, checked under SpecSeeded *)

\* the TTL the entry held under k was stored with
EntryTtl(k) == MapGet(cache, k).ttl[1]

\* C23: on an enabled wrapper setCacheEntryManually(key, data, ttl) starts
\* no collaborator call and leaves under key an entry holding data, stamped
\* now, whose TTL is ttl when one is given and the configured default TTL
\* otherwise; a get whose key holds a seeded entry that has not outlived
\* that TTL finds the seeded data, and the call reports cached: true with it.
C23_SeedStores ==
    [][Enabled(wrapper) =>
           /\ (Immediate /\ resp'.op = "setCacheEntryManually") =>
                  /\ MapHas(cache', resp'.key)
                  /\ MapGet(cache', resp'.key) =
                         [key |-> resp'.key, data |-> resp'.data, timestamp |-> now,
                          ttl |-> IF resp'.ttl # undefined
                                  THEN resp'.ttl
                                  ELSE wrapper.config.defaultTTL]
           /\ (/\ Starts
               /\ Head(pending').op = "get"
               /\ MapHas(cache, Head(pending').key)
               /\ origin[Head(pending').key].op = "seed"
               /\ now - origin[Head(pending').key].at <= EntryTtl(Head(pending').key))
                  => Head(pending').cached = origin[Head(pending').key].data
           /\ (Returns /\ Call.cached # null) =>
                  resp'.out.cached /\ resp'.out.data = <<Call.cached>>]_vars

\* C25: in configured mode the cache the wrapper created has the capacity
\* the wrapper reports as its own, the caller's maxSize or 100 when the
\* config object has none, and every getCacheStats reports totalEntries
\* no greater than maxSize.
C25_ConfiguredCapacity ==
    wrapper.mode = "configured" =>
        /\ config.maxSize = wrapper.config.maxSize
        /\ resp.op = "getCacheStats" => resp.out.totalEntries <= resp.out.maxSize[1]

-----------------------------------------------------------------------------
(* Collaborator failure, checked under SpecFailing *)

\* the step is a get or select call ending with an error
Throws == Returns /\ "thrown" \in DOMAIN resp'

\* the keys held with their values
Entries(m) == {<<m[i].key, m[i].data>> : i \in 1..Len(m)}

\* C24, as stated: when the collaborator raises an error during get or
\* select, in any mode, hit or miss, the caller gets that same error, the
\* collaborator was invoked exactly once, nothing is stored, and after a
\* miss the keys held and their values are those held before the call.
C24_FailureLeavesCache ==
    [][Throws =>
           /\ resp'.thrown = resp'.raised
           /\ resp'.forwarded = <<Call.args>>
           /\ cache' = cache
           /\ Call.cached = null => Entries(cache') = Entries(Call.before)]_vars

\* C24, amended: as stated, except that after a miss the keys held and
\* their values are those held before the call less the call's own key,
\* whose entry the lookup drops if it finds it expired.
C24_FailurePropagates ==
    [][Throws =>
           /\ resp'.thrown = resp'.raised
           /\ resp'.forwarded = <<Call.args>>
           /\ cache' = cache
           /\ Call.cached = null =>
                  Entries(cache') = Entries(MapDelete(Call.before, Call.key))
           /\ Call.cached # null => Entries(cache') = Entries(Call.before)]_vars

\* a select on an enabled wrapper holding an entry has ended with the
\* collaborator's error
C24_Witness ==
    /\ Enabled(wrapper)
    /\ "thrown" \in DOMAIN resp
    /\ resp.op = "select"
    /\ resp.thrown = "e1"
    /\ now > 0
    /\ Len(cache) > 0

-----------------------------------------------------------------------------
(* Entry lifecycle in MemoryCacheProvider, checked under Spec *)

\* the step removes key k from the table in one of the documented ways:
\* a clear, a set of another key (eviction), a cleanup, a get of k that
\* returns nothing
LeavesProperly(k) ==
    \/ \E key \in OptKeys : DidClear(key)
    \/ \E k2 \in Keys \ {k} : DidSet(k2)
    \/ DidCleanup
    \/ DidGet(k) /\ last'.ret = null

\* C26, as stated: every successful get(k) leaves k's entry in the
\* most-recently-used position with its timestamp reset to the time of the
\* read, and a key leaves the table only through clear, eviction on set,
\* cleanup, or a get that finds it expired.
C26_GetRefreshes ==
    [][\A k \in Keys :
          /\ (DidGet(k) /\ last'.ret # null) =>
                 /\ MapHas(cache', k)
                 /\ cache'[Len(cache')].key = k
                 /\ MapGet(cache', k).timestamp = now
          /\ (MapHas(cache, k) /\ ~MapHas(cache', k)) => LeavesProperly(k)]_vars

\* C26, amended: every successful get(k) moves k's entry to the
\* most-recently-used position and leaves its timestamp, TTL and value as
\* they were, and a key leaves the table only through clear, eviction on
\* set, cleanup, or a get that finds it expired.
C26_GetMovesToMru ==
    [][\A k \in Keys :
          /\ (DidGet(k) /\ last'.ret # null) =>
                 /\ MapHas(cache, k) /\ MapHas(cache', k)
                 /\ cache'[Len(cache')].key = k
                 /\ MapGet(cache', k) = MapGet(cache, k)
                 /\ MapDelete(cache', k) = MapDelete(cache, k)
          /\ (MapHas(cache, k) /\ ~MapHas(cache', k)) => LeavesProperly(k)]_vars

\* a successful read after the clock advanced has moved an entry from the
\* front of the table to the end, its timestamp still that of the store
C26_Witness ==
    /\ last.op = "get"
    /\ last.ret # null
    /\ now > 0
    /\ Len(cache) > 1
    /\ cache[Len(cache)].key = last.key[1]
    /\ cache[Len(cache)].timestamp = 0
    /\ cache[1].timestamp = now

-----------------------------------------------------------------------------
(* Concurrent use, checked under SpecConcurrent, whose steps are the       *)
(* uninterrupted runs between awaits                                       *)

\* C27: with calls of several callers in flight, each cache operation
\* running within one uninterrupted step, the table never holds more than
\* maxSize entries, for maxSize >= 1, in any reachable state.
C27_CapacityAlways ==
    (config.maxSize # undefined /\ config.maxSize[1] >= 1) =>
        Len(cache) <= config.maxSize[1]

\* the table is full, being smaller than the number of keys in use, while
\* both callers await the collaborator after a miss
C27_Witness ==
    /\ Len(cache) = config.maxSize[1]
    /\ Len(cache) < Cardinality(ConcurrentCalls)
    /\ \A c \in Callers : pending[c] # Idle /\ pending[c].cached = null
    /\ pending["c1"].key # pending["c2"].key
    /\ resp.op = "pending"
    /\ now > 0

\* caller c's call starts, respectively returns, in this step
StartsFor(c) == pending[c] = Idle /\ pending'[c] # Idle
ReturnsFor(c) == pending[c] # Idle /\ pending'[c] = Idle

\* the table holds no entry for k that is within the wrapper's default TTL
NoLiveEntry(k) == ~MapHas(cache, k) \/ ~WLive(k, now)

\* C28: a get that starts while no live entry for its slug is held finds
\* nothing, whether or not another get for the slug is already waiting;
\* every call that found nothing invokes the collaborator once, reports
\* cached: false and, the response carrying data, leaves that data under
\* its key, so that the entry holds the data of the fetch that resolved last.
C28_NoCoalescing ==
    [][\A c \in Callers :
          /\ (StartsFor(c) /\ NoLiveEntry(pending'[c].key)) => pending'[c].cached = null
          /\ (ReturnsFor(c) /\ pending[c].cached = null) =>
                 /\ resp'.forwarded = <<pending[c].args>>
                 /\ ~resp'.out.cached
                 /\ resp'.raw.data # undefined =>
                        /\ MapHas(cache', pending[c].key)
                        /\ MapGet(cache', pending[c].key).data = resp'.raw.data[1]]_vars

\* of two get calls that both missed, the one resolving last has replaced
\* the entry the other had stored
C28_Witness ==
    /\ resp.op = "get"
    /\ resp.missed
    /\ resp.overwrote
    /\ ~resp.out.cached
    /\ resp.raw.data = <<"d2">>
    /\ MapGet(cache, resp.key).data = "d2"
    /\ \A c \in Callers : pending[c] = Idle

\* C29: a get or select that found nothing and, while it waited, saw the
\* cache cleared entirely or of its key stores its data all the same when
\* the collaborator answers: its key is then held again, stamped with the
\* time of the answer.
C29_ClearDoesNotCancel ==
    [][\A c \in Callers :
          (/\ ReturnsFor(c)
           /\ pending[c].cached = null
           /\ pending[c].cleared
           /\ resp'.raw.data # undefined) =>
              /\ MapHas(cache', pending[c].key)
              /\ MapGet(cache', pending[c].key).data = resp'.raw.data[1]
              /\ MapGet(cache', pending[c].key).timestamp = now]_vars

\* the only entry held was stored by a call during whose wait the cache was
\* cleared
C29_Witness ==
    /\ resp.op \in {"get", "select"}
    /\ resp.missed
    /\ resp.cleared
    /\ ~resp.overwrote
    /\ Len(cache) = 1
    /\ MapHas(cache, resp.key)
    /\ \A c \in Callers : pending[c] = Idle

====
